---- MODULE Spec2Model ----
(***************************************************************************)
(* picom-xrdesktop-companion, app/src/main.rs.                             *)
(*                                                                         *)
(* One asynchronous task (App::run) maps the compositor's windows          *)
(* (setup_initial_windows, map_win) and then serves DamageNotify events    *)
(* (run, render_win, refresh_texture, TextureSet::free).  Every action     *)
(* below is the code between two await points of that task.  Replies of    *)
(* the display server, of the compositor's D-Bus service and of the GPU    *)
(* bridge are inputs of the step that receives them: a window can be       *)
(* moved, resized, unmapped or destroyed by its owner between any two      *)
(* requests, so every reply is drawn afresh from the small sets below.     *)
(***************************************************************************)
EXTENDS Integers, Sequences, FiniteSets, TLC

\* ------------------------------------------------------------------ bounds
\* Longest enumeration returned by the compositor's introspection.
MaxEnum == 2
\* Number of events wait_for_event delivers before the model stops the loop.
MaxEvents == 2

\* ------------------------------------------------------------------ inputs
\* Child node names of <root>/windows.  D-Bus object paths are unique, so an
\* enumeration never repeats a name; "0x1" and "1" are two names of window 1.
CandNames == {"0x1", "0x2", "1"}

\* parse_int::parse::<u32>: decimal, or hexadecimal after a 0x prefix.
ParseInt(s) ==
    CASE s = "0x1" -> 1
      [] s = "1"   -> 1
      [] s = "0x2" -> 2

RECURSIVE Injective(_)
Injective(s) ==
    \/ Len(s) <= 1
    \/ /\ \A i \in 2..Len(s) : s[i] # s[1]
       /\ Injective(Tail(s))

RECURSIVE SeqsUpTo(_)
SeqsUpTo(n) ==
    IF n = 0 THEN {<< >>}
    ELSE LET shorter == SeqsUpTo(n - 1)
         IN  shorter \cup {Append(s, c) : s \in shorter, c \in CandNames}

Enumerations == {s \in SeqsUpTo(MaxEnum) : Injective(s)}

Geometry(x, y, w, h) == [x |-> x, y |-> y, width |-> w, height |-> h]

\* get_geometry replies for the root window (x = y = 0).
RootGeometries == {Geometry(0, 0, 1920, 1080), Geometry(0, 0, 40000, 1080)}

\* get_geometry replies for a candidate window in map_win: x, y are i16,
\* width, height are u16.
WinGeometries ==
    { Geometry(100, 100, 300, 200),       \* on screen
      Geometry(-50, 100, 40, 200),        \* left of the screen
      Geometry(-300, 100, 300, 200),      \* right edge touches x = 0
      Geometry(-299, 100, 300, 200),      \* one column visible
      Geometry(1920, 100, 300, 200),      \* left edge at root width
      Geometry(1919, 100, 300, 200),      \* one column visible
      Geometry(100, -200, 300, 200),      \* bottom edge touches y = 0
      Geometry(100, 1080, 300, 200),      \* top edge at root height
      Geometry(100, 1079, 300, 200),      \* one row visible
      Geometry(0, 0, 40000, 200),         \* width above i16::MAX
      Geometry(-32768, 0, 32768, 200) }   \* width = 2^15

\* width, height of a tracked window as get_geometry and the composite
\* extension report them during a refresh.
Size(w, h) == [width |-> w, height |-> h]
Sizes == {Size(300, 200), Size(400, 200)}

\* Replies of the compositor's per-window proxy: mapped() and type_().
MetaReplies == [mapped : BOOLEAN, type : {"normal", "dock"}]

\* X11 window ids the display server can name in a DamageNotify.
Drawables == {1, 2}

NoSize == Size(0, 0)
NoGeometry == Geometry(0, 0, 0, 0)
NoMeta == [mapped |-> FALSE, type |-> "none"]

\* Option<TextureSet>::None, and the four members of a TextureSet.
NoTex == [sid |-> 0, x11_pixmap |-> NoSize, x11_texture |-> NoSize,
          remote_texture |-> NoSize, imported_texture |-> NoSize]

\* No xrd::Window in hand.
NoXrd == [depth |-> -1]

NoCall == [name |-> "", meta |-> NoMeta, win |-> NoGeometry,
           root |-> NoGeometry, outcome |-> "none"]

VARIABLES
    enumeration,  \* zbus::xml::Node::nodes(): the candidates, in order
    idx,          \* position of the for loop of setup_initial_windows
    pc,           \* await point the task is suspended at
    result,       \* "running", "Err" (run returned Err) or "panic"
    err,          \* the error or panic that ended the task
    caller,       \* who called render_win: "map_win" or "run"
    wid,          \* the window the task is working on
    windows,      \* App::windows: wid -> Window
    xrd_client,   \* scene-graph windows added to the client: native -> count
    damages,      \* damage objects registered at the display server
    nextId,       \* x11 generate_id / texture set counter
    geo,          \* refresh_texture's win_geometry (width, height)
    partial,      \* resources refresh_texture holds in locals
    taken,        \* the set TextureSet::free received
    refreshed,    \* refresh_texture's return value
    plan,         \* the branch the refresh in progress (or last) took
    mark,         \* length of the window's reslog when that refresh began
    reslog,       \* per window: resource operations performed, in order
    trues,        \* per window: refresh_texture calls that returned Ok(true)
    evlog,        \* run's loop: notifications, acknowledgments, render passes
    events,       \* events delivered so far
    xrd_window,   \* map_win's xrd_window before it moves into the Window
    qualified,    \* wids whose replies were mapped, "normal" and on screen
    app_dropped,  \* main has dropped the App, and with it every Window
    tasks,        \* detached tasks spawned by Drop for Window: wid -> task
    lastMap       \* the map_win call in progress or last finished in setup

vars == << enumeration, idx, pc, result, err, caller, wid, windows,
           xrd_client, damages, nextId, geo, partial, taken, refreshed,
           plan, mark,
           reslog, trues, evlog, events, xrd_window, qualified, lastMap,
           app_dropped, tasks >>

rtVars == << geo, partial, taken, refreshed, plan, mark >>
logVars == << reslog, trues, evlog, events >>
xVars == << xrd_client, damages, nextId >>

Init ==
    /\ enumeration \in Enumerations
    /\ idx = 0
    /\ pc = "setup_introspect"
    /\ result = "running"
    /\ err = ""
    /\ caller = ""
    /\ wid = 0
    /\ windows = << >>
    /\ xrd_client = [d \in Drawables |-> 0]
    /\ damages = {}
    /\ nextId = 1
    /\ geo = NoSize
    /\ partial = NoTex
    /\ taken = NoTex
    /\ refreshed = FALSE
    /\ plan = "none"
    /\ mark = 0
    /\ reslog = [d \in Drawables |-> << >>]
    /\ trues = [d \in Drawables |-> 0]
    /\ evlog = << >>
    /\ events = 0
    /\ xrd_window = NoXrd
    /\ qualified = {}
    /\ lastMap = NoCall
    /\ app_dropped = FALSE
    /\ tasks = << >>

\* `?` on an Err, up to main: run returns the error and the process ends.
Fail(kind) ==
    /\ pc' = "exit"
    /\ result' = "Err"
    /\ err' = kind

\* unwrap() on None or Err, or a checked arithmetic overflow: the task panics.
Panic(kind) ==
    /\ pc' = "exit"
    /\ result' = "panic"
    /\ err' = kind

Outcome(o) == lastMap' = [lastMap EXCEPT !.outcome = o]

\* ------------------------------------------------- setup_initial_windows
\* The proxy for <root>/windows is built and introspected.
SetupIntrospect ==
    /\ pc = "setup_introspect"
    /\ \/ /\ Fail("RegistryError")
          /\ UNCHANGED idx
       \/ /\ pc' = "setup_next"
          /\ idx' = 0
          /\ UNCHANGED << result, err >>
    /\ UNCHANGED << enumeration, app_dropped, tasks, caller, wid, windows, xVars, rtVars,
                    logVars, xrd_window, qualified, lastMap >>

\* What setup_initial_windows does with an Err of map_win: `?` returns it.
MapWinErr(kind) == Fail(kind)

\* for w in windows.nodes(): the next map_win call, or Ok(()) after the last.
SetupNext ==
    /\ pc = "setup_next"
    /\ IF idx < Len(enumeration)
       THEN /\ idx' = idx + 1
            /\ pc' = "map_proxy"
            /\ lastMap' = [NoCall EXCEPT !.name = enumeration[idx + 1],
                                         !.outcome = "running"]
       ELSE /\ pc' = "wait"
            /\ lastMap' = NoCall
            /\ UNCHANGED idx
    /\ UNCHANGED << enumeration, app_dropped, tasks, result, err, caller, wid, windows, xVars,
                    rtVars, logVars, xrd_window, qualified >>

\* --------------------------------------------------------------- map_win
\* The window's proxy is built, then mapped() and type_() are asked; type_()
\* only of a mapped window.  wid is parsed after both.
\* map_win without the test of type_().
MetadataVerdict_NoTypeCheck(m) ==
    IF ~m.mapped THEN "ignored_unmapped" ELSE "running"

MetadataVerdict(m) ==
    IF ~m.mapped THEN "ignored_unmapped"
    ELSE IF m.type # "normal" THEN "ignored_type"
    ELSE "running"

MapWinMetadata ==
    /\ pc = "map_proxy"
    /\ \/ /\ MapWinErr("RegistryError")
          /\ Outcome("failed")
          /\ UNCHANGED wid
       \/ \E m \in MetaReplies :
            /\ lastMap' = [lastMap EXCEPT !.meta = m,
                                          !.outcome = MetadataVerdict(m)]
            /\ UNCHANGED << result, err >>
            /\ IF MetadataVerdict(m) = "running"
               THEN /\ pc' = "map_geometry"
                    /\ wid' = ParseInt(lastMap.name)
               ELSE /\ pc' = "setup_next"
                    /\ UNCHANGED wid
    /\ UNCHANGED << enumeration, app_dropped, tasks, idx, caller, windows, xVars, rtVars,
                    logVars, xrd_window, qualified >>

\* `width as i16`, `height as i16`, `root.width as _`: u16 to i16, wrapping.
AsI16(u) == IF u >= 2^15 THEN u - 2^16 ELSE u

\* Unary minus on an i16; i16::MIN wraps to itself when overflow is unchecked.
NegI16(v) == IF v = -(2^15) THEN v ELSE -v

\* Does evaluating the test negate i16::MIN?  `||` stops at the first true
\* operand, so the height is negated only when the first comparison is false.
NegOverflows(wg) ==
    \/ AsI16(wg.width) = -(2^15)
    \/ /\ ~(wg.x <= NegI16(AsI16(wg.width)))
       /\ AsI16(wg.height) = -(2^15)

\* The test with < for <= on the left and top edges.
OffscreenTest_Strict(wg, rg) ==
    \/ wg.x < NegI16(AsI16(wg.width))
    \/ wg.y < NegI16(AsI16(wg.height))
    \/ wg.x >= AsI16(rg.width)
    \/ wg.y >= AsI16(rg.height)

\* "If the window is entirely outside of the screen, hide it"
OffscreenTest(wg, rg) ==
    \/ wg.x <= NegI16(AsI16(wg.width))
    \/ wg.y <= NegI16(AsI16(wg.height))
    \/ wg.x >= AsI16(rg.width)
    \/ wg.y >= AsI16(rg.height)

\* The window lies entirely outside the root window (exact arithmetic).
EntirelyOutside(wg, rg) ==
    \/ wg.x <= -wg.width
    \/ wg.y <= -wg.height
    \/ wg.x >= rg.width
    \/ wg.y >= rg.height

\* get_geometry of the root and of the window, then the off-screen test.
\* Negating i16::MIN panics in a build with overflow checks and wraps in
\* one without.
MapWinGeometry ==
    /\ pc = "map_geometry"
    /\ \/ /\ MapWinErr("ProtocolError")
          /\ Outcome("failed")
          /\ UNCHANGED qualified
       \/ \E rg \in RootGeometries, wg \in WinGeometries :
            /\ qualified' = IF EntirelyOutside(wg, rg) THEN qualified
                            ELSE qualified \cup {wid}
            /\ \/ /\ NegOverflows(wg)
                  /\ Panic("attempt to negate with overflow")
                  /\ lastMap' = [lastMap EXCEPT !.win = wg, !.root = rg,
                                                !.outcome = "panicked"]
               \/ /\ OffscreenTest(wg, rg)
                  /\ pc' = "setup_next"
                  /\ lastMap' = [lastMap EXCEPT !.win = wg, !.root = rg,
                                        !.outcome = "ignored_offscreen"]
                  /\ UNCHANGED << result, err >>
               \/ /\ ~OffscreenTest(wg, rg)
                  /\ pc' = "map_xrd"
                  /\ lastMap' = [lastMap EXCEPT !.win = wg, !.root = rg]
                  /\ UNCHANGED << result, err >>
    /\ UNCHANGED << enumeration, app_dropped, tasks, idx, caller, wid, windows, xVars, rtVars,
                    logVars, xrd_window >>

\* A depth taken from the candidate's position in the enumeration.
Depth_ByCandidate(registered) == idx - 1

\* The z coordinate of the initial placement is len / 3.0 - 8.0: the model
\* keeps len, the number of windows registered when the point is computed.
Depth(registered) == registered

\* proxy.name(), xrd::Window::new_from_pixels, xrd_client_add_window and the
\* initial transformation.
MapWinCreateXrd ==
    /\ pc = "map_xrd"
    /\ \/ /\ MapWinErr("RegistryError")
          /\ Outcome("failed")
          /\ UNCHANGED << xrd_client, xrd_window >>
       \/ /\ MapWinErr("failed to create xrdWindow")
          /\ Outcome("failed")
          /\ UNCHANGED << xrd_client, xrd_window >>
       \/ /\ xrd_client' = [xrd_client EXCEPT ![wid] = @ + 1]
          /\ xrd_window' = [depth |-> Depth(Cardinality(DOMAIN windows))]
          /\ pc' = "map_damage"
          /\ UNCHANGED << result, err, lastMap >>
    /\ UNCHANGED << enumeration, app_dropped, tasks, idx, caller, wid, windows, damages, nextId,
                    rtVars, logVars, qualified >>

\* HashMap::try_insert: the map is left as it was when the key is occupied.
try_insert(map, k, v) ==
    IF k \in DOMAIN map
    THEN [ok |-> FALSE, map |-> map]
    ELSE [ok |-> TRUE, map |-> map @@ (k :> v)]

LogRes(w, op, sid) ==
    reslog' = [reslog EXCEPT ![w] = Append(@, [op |-> op, sid |-> sid])]

\* generate_id and damage_create, then the Window is built and inserted with
\* try_insert(..).unwrap(), and render_win is called on the new entry.  The
\* Window a failed try_insert hands back is dropped with textures = None:
\* its drop path frees nothing.
MapWinDamage ==
    /\ pc = "map_damage"
    /\ \/ /\ MapWinErr("ProtocolError")
          /\ Outcome("failed")
          /\ xrd_window' = NoXrd
          /\ UNCHANGED << damages, nextId, windows, caller >>
       \/ LET window == [id |-> wid, damage |-> nextId, textures |-> NoTex,
                         depth |-> xrd_window.depth, active |-> 0]
              r == try_insert(windows, wid, window)
          IN  /\ damages' = damages \cup {[damage |-> nextId, drawable |-> wid]}
              /\ nextId' = nextId + 1
              /\ xrd_window' = NoXrd
              /\ windows' = r.map
              /\ IF r.ok
                 THEN /\ pc' = "rt_geometry"
                      /\ caller' = "map_win"
                      /\ UNCHANGED << result, err, lastMap >>
                 ELSE /\ Panic("OccupiedError")
                      /\ Outcome("duplicate")
                      /\ UNCHANGED caller
    /\ UNCHANGED << enumeration, app_dropped, tasks, idx, wid, xrd_client, rtVars, logVars,
                    qualified >>

\* ------------------------------------------------------- refresh_texture
\* An Err leaving render_win: map_win returns it to setup_initial_windows,
\* run returns it to main.
RenderErr(kind) ==
    /\ IF caller = "map_win" THEN MapWinErr(kind) ELSE Fail(kind)
    /\ IF caller = "map_win" THEN Outcome("failed") ELSE UNCHANGED lastMap

\* The comparison with width and height exchanged on one side.
DimsDiffer_Swapped(ts, g) ==
    \/ ts.x11_texture.width # g.height
    \/ ts.x11_texture.height # g.width

\* The stored capture texture's width or height is not the one just reported.
DimsDiffer(ts, g) ==
    \/ ts.x11_texture.width # g.width
    \/ ts.x11_texture.height # g.height

\* A refresh_texture that never frees: a set of other dimensions is
\* overwritten by the new one.
RefreshPlan_NoFree(ts, g) ==
    IF ts = NoTex \/ DimsDiffer(ts, g) THEN "create" ELSE "keep"

\* What refresh_texture does once the geometry is known: "free" a set of
\* other dimensions (and then create), "create" when there is none, "keep".
RefreshPlan(ts, g) ==
    IF ts # NoTex /\ DimsDiffer(ts, g) THEN "free"
    ELSE IF ts = NoTex THEN "create"
    ELSE "keep"

\* get_geometry, then the comparison with the capture texture: a set of other
\* dimensions is taken out of the Window and handed to TextureSet::free.
RtGetGeometry ==
    /\ pc = "rt_geometry"
    /\ \/ /\ RenderErr("ProtocolError")
          /\ UNCHANGED << geo, taken, refreshed, plan, mark, windows, reslog >>
       \/ \E g \in Sizes :
            LET ts == windows[wid].textures
            IN  /\ geo' = g
                /\ plan' = RefreshPlan(ts, g)
                /\ mark' = Len(reslog[wid])
                /\ UNCHANGED << result, err, lastMap >>
                /\ \/ /\ plan' = "free"
                      /\ windows' = [windows EXCEPT ![wid].textures = NoTex]
                      /\ taken' = ts
                      /\ LogRes(wid, "free", ts.sid)
                      /\ pc' = "free_release"
                      /\ UNCHANGED refreshed
                   \/ /\ plan' = "create"
                      /\ pc' = "rt_name_pixmap"
                      /\ UNCHANGED << windows, taken, refreshed, reslog >>
                   \/ /\ plan' = "keep"
                      /\ refreshed' = FALSE
                      /\ pc' = "blit"
                      /\ UNCHANGED << windows, taken, reslog >>
    /\ UNCHANGED << enumeration, app_dropped, tasks, idx, caller, wid, xVars, partial, trues,
                    evlog, events, xrd_window, qualified >>

\* ------------------------------------------------------ TextureSet::free
\* The fields the pattern leaves in `this` (remote_texture, imported_texture)
\* are dropped when free returns, with Ok or with Err.
DropRest(log, sid) ==
    log \o << [op |-> "drop_remote", sid |-> sid],
              [op |-> "drop_imported", sid |-> sid] >>

\* gl.release_texture(x11_texture).await?
FreeReleaseTexture ==
    /\ pc = "free_release"
    /\ \/ /\ RenderErr("GpuError")
          /\ reslog' = [reslog EXCEPT ![wid] = DropRest(@, taken.sid)]
          /\ taken' = NoTex
       \/ /\ LogRes(wid, "release_texture", taken.sid)
          /\ pc' = "free_pixmap"
          /\ UNCHANGED << result, err, lastMap, taken >>
    /\ UNCHANGED << enumeration, app_dropped, tasks, idx, caller, wid, windows, xVars, geo,
                    partial, refreshed, plan, mark, trues, evlog, events,
                    xrd_window, qualified >>

\* A refresh_texture that returns right after the teardown.
AfterFree_Return == "blit"

\* Where refresh_texture goes on after TextureSet::free returned Ok(()):
\* w.textures.is_none() holds, so to the creation of a new set.
AfterFree == "rt_name_pixmap"

\* x11.free_pixmap(x11_pixmap)?.check()?, then Ok(()) back in
\* refresh_texture, where w.textures is None.
FreePixmap ==
    /\ pc = "free_pixmap"
    /\ \/ /\ RenderErr("ProtocolError")
          /\ reslog' = [reslog EXCEPT ![wid] = DropRest(@, taken.sid)]
       \/ /\ reslog' = [reslog EXCEPT ![wid] =
                 DropRest(Append(@, [op |-> "free_pixmap", sid |-> taken.sid]),
                          taken.sid)]
          /\ pc' = AfterFree
          /\ UNCHANGED << result, err, lastMap >>
    /\ taken' = NoTex
    /\ UNCHANGED << enumeration, app_dropped, tasks, idx, caller, wid, windows, xVars, geo,
                    partial, refreshed, plan, mark, trues, evlog, events,
                    xrd_window, qualified >>

\* -------------------------------------------- refresh_texture, continued
\* get_window_attributes, generate_id, composite_name_window_pixmap: the
\* pixmap has the size the window has when the server names it.
RtNamePixmap ==
    /\ pc = "rt_name_pixmap"
    /\ \/ /\ RenderErr("ProtocolError")
          /\ UNCHANGED << partial, nextId, reslog >>
       \/ \E p \in Sizes :
            /\ partial' = [NoTex EXCEPT !.sid = nextId, !.x11_pixmap = p]
            /\ nextId' = nextId + 1
            /\ LogRes(wid, "name_pixmap", nextId)
            /\ pc' = "rt_bind"
            /\ UNCHANGED << result, err, lastMap >>
    /\ UNCHANGED << enumeration, app_dropped, tasks, idx, caller, wid, windows, xrd_client,
                    damages, geo, taken, refreshed, plan, mark, trues, evlog,
                    events, xrd_window, qualified >>

\* gl::Gl::bind_texture(pixmap, visual): a texture over the capture surface;
\* it is given no size, it has the pixmap's.
BindTexture(pixmap) == pixmap

\* gulkan_texture_new_export_fd(client, extent, ..): a texture of the extent.
ExportTexture(extent) == extent

\* gl::Gl::import_fd(width, height, fd, size): a texture of width x height.
ImportFd(width, height) == Size(width, height)

\* gl.bind_texture(..).await?, then the remote texture is allocated with the
\* extent of win_geometry.  from_glib_full asserts a non-null pointer in a
\* build with debug assertions; without them the handle is used as returned.
RtBind ==
    /\ pc = "rt_bind"
    /\ \/ /\ RenderErr("GpuError")
          /\ UNCHANGED << partial, reslog >>
       \/ /\ Panic("null remote texture")
          /\ IF caller = "map_win" THEN Outcome("panicked")
             ELSE UNCHANGED lastMap
          /\ partial' = [partial EXCEPT
                 !.x11_texture = BindTexture(partial.x11_pixmap)]
          /\ LogRes(wid, "bind", partial.sid)
       \/ /\ partial' = [partial EXCEPT
                 !.x11_texture = BindTexture(partial.x11_pixmap),
                 !.remote_texture = ExportTexture(geo)]
          /\ reslog' = [reslog EXCEPT ![wid] =
                 @ \o << [op |-> "bind", sid |-> partial.sid],
                         [op |-> "allocate", sid |-> partial.sid] >>]
          /\ pc' = "rt_import"
          /\ UNCHANGED << result, err, lastMap >>
    /\ UNCHANGED << enumeration, app_dropped, tasks, idx, caller, wid, windows, xVars, geo,
                    taken, refreshed, plan, mark, trues, evlog, events,
                    xrd_window, qualified >>

\* A refresh_texture that reports an unchanged set after storing a new one.
ReturnAfterCreate_False == FALSE

\* What refresh_texture returns after it stored a new set.
ReturnAfterCreate == TRUE

\* gl.import_fd(..).await?, then w.textures = Some(TextureSet {..}), Ok(true).
RtImport ==
    /\ pc = "rt_import"
    /\ \/ /\ RenderErr("GpuError")
          /\ UNCHANGED << partial, windows, refreshed, trues, reslog >>
       \/ /\ windows' = [windows EXCEPT ![wid].textures =
                 [partial EXCEPT
                     !.imported_texture = ImportFd(geo.width, geo.height)]]
          /\ partial' = NoTex
          /\ refreshed' = ReturnAfterCreate
          /\ trues' = [trues EXCEPT ![wid] = @ + (IF refreshed' THEN 1 ELSE 0)]
          /\ LogRes(wid, "import", partial.sid)
          /\ pc' = "blit"
          /\ UNCHANGED << result, err, lastMap >>
    /\ UNCHANGED << enumeration, app_dropped, tasks, idx, caller, wid, xVars, geo, taken, plan,
                    mark, evlog, events, xrd_window, qualified >>

\* ------------------------------------------------------------ render_win
\* w.textures.as_ref().unwrap(), gl.blit(x11_texture, imported_texture), then
\* set_and_submit_texture(remote_texture) after a refresh that returned true
\* and submit_texture() otherwise; Ok(()) to map_win or to run's loop.
Blit ==
    /\ pc = "blit"
    /\ LET ts == windows[wid].textures
       IN  \/ /\ ts = NoTex
              /\ Panic("unwrap on None")
              /\ IF caller = "map_win" THEN Outcome("panicked")
                 ELSE UNCHANGED lastMap
              /\ UNCHANGED << windows, reslog >>
           \/ /\ ts # NoTex
              /\ RenderErr("GpuError")
              /\ LogRes(wid, "blit", ts.sid)
              /\ UNCHANGED windows
           \/ /\ ts # NoTex
              /\ IF refreshed
                 THEN /\ windows' = [windows EXCEPT ![wid].active = ts.sid]
                      /\ reslog' = [reslog EXCEPT ![wid] =
                             @ \o << [op |-> "blit", sid |-> ts.sid],
                                     [op |-> "set_and_submit", sid |-> ts.sid] >>]
                 ELSE /\ UNCHANGED windows
                      /\ reslog' = [reslog EXCEPT ![wid] =
                             @ \o << [op |-> "blit", sid |-> ts.sid],
                                     [op |-> "submit",
                                      sid |-> windows[wid].active] >>]
              /\ IF caller = "map_win"
                 THEN /\ pc' = "setup_next"
                      /\ Outcome("mapped")
                 ELSE /\ pc' = "wait"
                      /\ UNCHANGED lastMap
              /\ UNCHANGED << result, err >>
    /\ UNCHANGED << enumeration, app_dropped, tasks, idx, caller, wid, xVars, rtVars, trues,
                    evlog, events, xrd_window, qualified >>

\* ------------------------------------------------------------------- run
LogEv(log, ev, arg) == Append(log, [ev |-> ev, arg |-> arg])

\* A loop that drops the notification of an unknown drawable and goes on.
NotifyUntracked_Dropped(d) ==
    /\ pc' = "wait"
    /\ evlog' = LogEv(evlog, "notify", d)
    /\ UNCHANGED << result, err, wid, caller >>

\* windows.get_mut(&drawable).unwrap() on a drawable that is not a key.
NotifyUntracked(d) ==
    /\ Panic("unwrap on None")
    /\ evlog' = LogEv(evlog, "notify", d)
    /\ UNCHANGED << wid, caller >>

\* A loop that renders without subtracting the damage first.
NotifyTracked_RenderFirst(d) ==
    /\ wid' = d
    /\ pc' = "rt_geometry"
    /\ caller' = "run"
    /\ evlog' = LogEv(LogEv(evlog, "notify", d), "render", d)
    /\ UNCHANGED << result, err >>

\* The Window is found: its damage is subtracted next.
NotifyTracked(d) ==
    /\ wid' = d
    /\ pc' = "ack"
    /\ evlog' = LogEv(evlog, "notify", d)
    /\ UNCHANGED << result, err, caller >>

\* wait_for_event on the blocking pool; a DamageNotify's drawable is looked
\* up in the registry; every other event is dropped.
WaitForEvent ==
    /\ pc = "wait"
    /\ events < MaxEvents
    /\ \/ /\ Fail("ConnectionError")
          /\ UNCHANGED << events, evlog, wid, caller >>
       \/ /\ events' = events + 1
          /\ evlog' = LogEv(evlog, "other", 0)
          /\ UNCHANGED << pc, result, err, wid, caller >>
       \/ \E d \in Drawables :
            /\ events' = events + 1
            /\ IF d \in DOMAIN windows
               THEN NotifyTracked(d)
               ELSE NotifyUntracked(d)
    /\ UNCHANGED << enumeration, app_dropped, tasks, idx, windows, xVars, rtVars, reslog, trues,
                    xrd_window, qualified, lastMap >>

\* A loop that subtracts the damage and waits for the next event without
\* rendering.
AckDamage_NoRender ==
    /\ pc = "ack"
    /\ \/ /\ Fail("ProtocolError")
          /\ UNCHANGED << evlog, caller >>
       \/ /\ evlog' = LogEv(evlog, "ack", windows[wid].damage)
          /\ caller' = "run"
          /\ pc' = "wait"
          /\ UNCHANGED << result, err >>
    /\ UNCHANGED << enumeration, app_dropped, tasks, idx, wid, windows, xVars,
                    rtVars, reslog, trues, events, xrd_window, qualified,
                    lastMap >>

\* damage_subtract(damage, NONE, NONE) on the blocking pool, awaited; then
\* render_win(w).
AckDamage ==
    /\ pc = "ack"
    /\ \/ /\ Fail("ProtocolError")
          /\ UNCHANGED << evlog, caller >>
       \/ /\ evlog' = LogEv(LogEv(evlog, "ack", windows[wid].damage),
                            "render", wid)
          /\ caller' = "run"
          /\ pc' = "rt_geometry"
          /\ UNCHANGED << result, err >>
    /\ UNCHANGED << enumeration, app_dropped, tasks, idx, wid, windows, xVars, rtVars, reslog,
                    trues, events, xrd_window, qualified, lastMap >>


\* -------------------------------------------------------- Drop for Window
\* run has returned Err to main, or the task panicked: the App is dropped and
\* with it the registry.  Every Window's drop takes its textures and spawns a
\* detached task that runs TextureSet::free on them; a task given Some(set)
\* is polled up to its first await, gl.release_texture.  The model keeps the
\* registry's keys as the record of what was tracked; the resource log is
\* that of the main task and ends here.
DropApp ==
    /\ pc = "exit"
    /\ ~app_dropped
    /\ app_dropped' = TRUE
    /\ tasks' = [w \in DOMAIN windows |->
                   [pc |-> IF windows[w].textures = NoTex THEN "ended"
                           ELSE "release",
                    ts |-> windows[w].textures]]
    /\ windows' = [w \in DOMAIN windows |->
                     [windows[w] EXCEPT !.textures = NoTex]]
    /\ UNCHANGED << enumeration, idx, pc, result, err, caller, wid, xVars,
                    rtVars, logVars, xrd_window, qualified, lastMap >>

\* gl.release_texture(x11_texture).await? in a detached task: on Ok the task
\* goes on to send free_pixmap; on Err free returns it, the task's unwrap()
\* panics and the pixmap is never freed.  A task that panicked and one that
\* returned are both "ended".
DropTaskRelease(w) ==
    /\ w \in DOMAIN tasks
    /\ tasks[w].pc = "release"
    /\ \/ tasks' = [tasks EXCEPT ![w].pc = "ended"]
       \/ tasks' = [tasks EXCEPT ![w].pc = "free_pixmap"]
    /\ UNCHANGED << enumeration, app_dropped, idx, pc, result, err, caller,
                    wid, windows, xVars, rtVars, logVars, xrd_window,
                    qualified, lastMap >>

\* x11.free_pixmap(x11_pixmap)?.check()? in a detached task: the reply ends
\* the task, with Ok(()) or with the panic of unwrap() on the Err.
DropTaskFreePixmap(w) ==
    /\ w \in DOMAIN tasks
    /\ tasks[w].pc = "free_pixmap"
    /\ tasks' = [tasks EXCEPT ![w].pc = "ended"]
    /\ UNCHANGED << enumeration, app_dropped, idx, pc, result, err, caller,
                    wid, windows, xVars, rtVars, logVars, xrd_window,
                    qualified, lastMap >>

Next ==
    \/ SetupIntrospect
    \/ SetupNext
    \/ MapWinMetadata
    \/ MapWinGeometry
    \/ MapWinCreateXrd
    \/ MapWinDamage
    \/ RtGetGeometry
    \/ FreeReleaseTexture
    \/ FreePixmap
    \/ RtNamePixmap
    \/ RtBind
    \/ RtImport
    \/ Blit
    \/ WaitForEvent
    \/ AckDamage
    \/ DropApp
    \/ \E w \in Drawables : DropTaskRelease(w)
    \/ \E w \in Drawables : DropTaskFreePixmap(w)

Spec == Init /\ [][Next]_vars

\* The steps that serve one DamageNotify: each resumes the main task when the
\* call it awaits (on the blocking pool, on the GL thread) has completed.
Handle ==
    \/ AckDamage
    \/ RtGetGeometry
    \/ FreeReleaseTexture
    \/ FreePixmap
    \/ RtNamePixmap
    \/ RtBind
    \/ RtImport
    \/ Blit

\* The awaited calls complete and the runtime resumes the task; nothing is
\* assumed about the arrival of events or about the detached tasks.
FairSpec == Spec /\ WF_vars(Handle)

\* ============================================================ properties
OpsAt(log, op) == {i \in DOMAIN log : log[i].op = op}

\* An exportable-texture allocation: gulkan_texture_new_export_fd followed by
\* the import_fd of what it exported, both done ("import" is logged when
\* import_fd returned Ok).
AllocPairs(log) ==
    {i \in OpsAt(log, "allocate") :
        /\ i < Len(log)
        /\ log[i + 1].op = "import"
        /\ log[i + 1].sid = log[i].sid}

\* C1: for every window, the allocate + import pairs performed are as many as
\* the refresh_texture calls that returned Ok(true); between two consecutive
\* allocations there is exactly one TextureSet::free, and it is of the set the
\* first of them allocated; no set is freed twice, and only allocated sets are
\* freed.
C1_AllocationsMatchTeardowns ==
    \A w \in Drawables :
        LET log == reslog[w]
            pairs == AllocPairs(log)
            frees == OpsAt(log, "free")
        IN  /\ Cardinality(pairs) = trues[w]
            /\ \A i, j \in pairs :
                 (i < j /\ ~(\E k \in pairs : i < k /\ k < j)) =>
                    \E f \in frees :
                       /\ i < f /\ f < j
                       /\ log[f].sid = log[i].sid
                       /\ \A g \in frees : (i < g /\ g < j) => g = f
            /\ \A f, g \in frees : log[f].sid = log[g].sid => f = g
            /\ \A f \in frees :
                 \E i \in pairs : i < f /\ log[i].sid = log[f].sid

\* Three allocations of one window, the first two sets freed in between.
C1_Witness ==
    \E w \in Drawables :
        /\ trues[w] = 3
        /\ Cardinality(OpsAt(reslog[w], "free")) = 2
        /\ pc = "wait"

\* Operations logged for window w since the refresh in progress began.
SinceMark(w, op) == {i \in OpsAt(reslog[w], op) : i > mark}

\* C2: a refresh_texture that found a set of other dimensions and came back
\* has performed exactly one teardown, then exactly one name/bind/allocate/
\* import cycle, returns true, and leaves all four members of the set with
\* the dimensions get_geometry reported.
C2_ResizeRecreatesAtNewSize ==
    (pc = "blit" /\ plan = "free") =>
        LET ts == windows[wid].textures
        IN  /\ Cardinality(SinceMark(wid, "free")) = 1
            /\ Cardinality(SinceMark(wid, "name_pixmap")) = 1
            /\ Cardinality(SinceMark(wid, "bind")) = 1
            /\ Cardinality(SinceMark(wid, "allocate")) = 1
            /\ Cardinality(SinceMark(wid, "import")) = 1
            /\ \A f \in SinceMark(wid, "free") :
                 \A n \in SinceMark(wid, "name_pixmap") : f < n
            /\ refreshed
            /\ ts.x11_pixmap = geo
            /\ ts.x11_texture = geo
            /\ ts.remote_texture = geo
            /\ ts.imported_texture = geo

\* C3: when a set is present and get_geometry reports the width and height of
\* its capture texture, refresh_texture returns false in that same step: the
\* registry, the set, the resource log and the id counter are as before (no
\* teardown, no pixmap named, nothing bound, allocated or imported).
C3_FastPath ==
    [][ ( /\ pc = "rt_geometry"
          /\ pc' # "exit"
          /\ windows[wid].textures # NoTex
          /\ windows[wid].textures.x11_texture = geo' )
        => ( /\ pc' = "blit"
             /\ refreshed' = FALSE
             /\ windows' = windows
             /\ reslog' = reslog
             /\ nextId' = nextId
             /\ trues' = trues
             /\ partial' = partial
             /\ taken' = taken ) ]_vars

\* A damage-driven refresh took the fast path on a 300x200 set.
C3_Witness ==
    /\ pc = "blit"
    /\ caller = "run"
    /\ plan = "keep"
    /\ ~refreshed
    /\ windows[wid].textures.x11_texture = Size(300, 200)
    /\ geo = Size(300, 200)

\* C4: a map_win that reaches the insertion with a wid already in the
\* registry ends with the error DuplicateWindow, not with a panic, and the
\* registry is as before.
C4_DuplicateIsAnError ==
    [][ ( /\ pc = "map_damage"
          /\ wid \in DOMAIN windows
          /\ damages' # damages )
        => ( /\ result' = "Err"
             /\ err' = "DuplicateWindow"
             /\ windows' = windows ) ]_vars

\* C5: a DamageNotify whose drawable is not in the registry is the last thing
\* the loop does: the task has ended loudly (here: the panic of unwrap on
\* None), with no acknowledgment, no render pass and no further event after it.
C5_UntrackedNotifyEndsLoop ==
    \A i \in DOMAIN evlog :
        (evlog[i].ev = "notify" /\ evlog[i].arg \notin DOMAIN windows) =>
            /\ i = Len(evlog)
            /\ pc = "exit"
            /\ result # "running"
            /\ err = "unwrap on None"

\* Window 1 is tracked, and the loop ended on a DamageNotify for window 2.
C5_Witness ==
    /\ DOMAIN windows = {1}
    /\ evlog # << >>
    /\ evlog[Len(evlog)] = [ev |-> "notify", arg |-> 2]
    /\ pc = "exit"
    /\ result = "panic"

\* C6: a map_win that fails aborts only its own candidate: while candidates
\* remain in the enumeration the task has not ended.
C6_FailureIsTrapped ==
    (lastMap.outcome = "failed" /\ idx < Len(enumeration)) => pc # "exit"

\* C7: a candidate whose geometry lies entirely outside the root window is
\* dropped at the off-screen test, with the registry as it was, and no step
\* inserts a window while the geometry of the call in progress is such.
C7_OffscreenNeverInserted ==
    [][ /\ ( /\ pc = "map_geometry"
             /\ lastMap'.win # NoGeometry
             /\ EntirelyOutside(lastMap'.win, lastMap'.root) )
           => ( /\ pc' \in {"setup_next", "exit"}
                /\ windows' = windows )
        /\ \A w \in Drawables :
             (w \notin DOMAIN windows /\ w \in DOMAIN windows') =>
                 /\ lastMap.win # NoGeometry
                 /\ ~EntirelyOutside(lastMap.win, lastMap.root) ]_vars

\* Root 1920x1080, window at x = -50 of width 40: ignored, not in the registry.
C7_Witness ==
    /\ lastMap.outcome = "ignored_offscreen"
    /\ lastMap.win = Geometry(-50, 100, 40, 200)
    /\ lastMap.root = Geometry(0, 0, 1920, 1080)
    /\ pc = "setup_next"
    /\ ParseInt(lastMap.name) \notin DOMAIN windows

\* C8: when the compositor reports mapped = false, or a type other than
\* "normal", map_win returns Ok(()) in that step and changes neither the
\* registry, nor the scene graph's windows, nor the damage registrations.
C8_UnmappedOrOtherTypeIsNoOp ==
    [][ ( /\ pc = "map_proxy"
          /\ lastMap'.meta # NoMeta
          /\ (~lastMap'.meta.mapped \/ lastMap'.meta.type # "normal") )
        => ( /\ pc' = "setup_next"
             /\ result' = "running"
             /\ windows' = windows
             /\ xrd_client' = xrd_client
             /\ damages' = damages
             /\ xrd_window' = NoXrd ) ]_vars

\* The second candidate is a mapped dock: ignored, with window 1 tracked.
C8_Witness ==
    /\ lastMap.outcome = "ignored_type"
    /\ lastMap.meta = [mapped |-> TRUE, type |-> "dock"]
    /\ pc = "setup_next"
    /\ DOMAIN windows = {1}
    /\ xrd_client = [d \in Drawables |-> IF d = 1 THEN 1 ELSE 0]
    /\ Cardinality(damages) = 1

\* C9: when setup_initial_windows returns Ok(()), the registry holds exactly
\* the candidates reported mapped, "normal" and not entirely off screen, each
\* with one scene-graph window and a texture set that was submitted.
C9_SetupTracksTheVisible ==
    (pc = "wait" /\ events = 0) =>
        /\ DOMAIN windows = qualified
        /\ \A w \in DOMAIN windows :
             /\ windows[w].textures # NoTex
             /\ windows[w].active = windows[w].textures.sid
             /\ xrd_client[w] = 1

\* C10: every render pass the loop starts comes right after the completed
\* damage_subtract of that window's damage handle, which comes right after
\* the DamageNotify of that window: one acknowledgment per render pass, and
\* while the pass is running the last thing the loop logged is its start.
C10_AckBeforeRender ==
    /\ \A i \in DOMAIN evlog :
         evlog[i].ev = "render" =>
            /\ i > 2
            /\ evlog[i - 1] = [ev |-> "ack",
                               arg |-> windows[evlog[i].arg].damage]
            /\ evlog[i - 2] = [ev |-> "notify", arg |-> evlog[i].arg]
    /\ (caller = "run" /\ pc \notin {"wait", "ack", "exit"}) =>
          /\ evlog # << >>
          /\ evlog[Len(evlog)] = [ev |-> "render", arg |-> wid]

\* Two notifications were served, of window 2 and then of window 1.
C10_Witness ==
    /\ Len(evlog) = 6
    /\ evlog[3] = [ev |-> "render", arg |-> 2]
    /\ evlog[6] = [ev |-> "render", arg |-> 1]
    /\ pc = "wait"

\* The positions at which the main task is waiting for the reply to a request
\* it sent to the display server (get_geometry, damage_create, free_pixmap,
\* composite_name_window_pixmap, wait_for_event, damage_subtract).
XAwaitPcs ==
    {"map_geometry", "map_damage", "rt_geometry", "free_pixmap",
     "rt_name_pixmap", "wait", "ack"}

\* The detached tasks whose free_pixmap is sent and not yet answered.
TasksInFreePixmap == {w \in DOMAIN tasks : tasks[w].pc = "free_pixmap"}

XInFlight ==
    (IF pc \in XAwaitPcs THEN 1 ELSE 0) + Cardinality(TasksInFreePixmap)

\* C11: at most one display-server operation is in flight at any time, the
\* free_pixmap requests of the detached tasks spawned by Drop for Window
\* counted with those of the main task.
C11_OneDisplayOpInFlight == XInFlight <= 1

\* The teardown that the "free" at index f of the log began has returned:
\* the rest of the set was dropped.
TeardownEnded(log, f) ==
    \E j \in OpsAt(log, "drop_imported") : j > f /\ log[j].sid = log[f].sid

\* C12: every TextureSet::free of a present set that has returned has
\* released, in this order and with nothing in between, the capture texture
\* (release_texture), the capture pixmap (free_pixmap), the remote texture
\* and the imported texture (the drop of their handles counted as their
\* release), so that none of the four is left allocated.
C12_TeardownReleasesAllFour ==
    \A w \in Drawables :
        LET log == reslog[w]
        IN  \A f \in OpsAt(log, "free") :
               TeardownEnded(log, f) =>
                  /\ f + 4 <= Len(log)
                  /\ log[f + 1] = [op |-> "release_texture", sid |-> log[f].sid]
                  /\ log[f + 2] = [op |-> "free_pixmap", sid |-> log[f].sid]
                  /\ log[f + 3] = [op |-> "drop_remote", sid |-> log[f].sid]
                  /\ log[f + 4] = [op |-> "drop_imported", sid |-> log[f].sid]

\* The name/bind/allocate/import cycles of the log that ended without their
\* import: the refresh_texture calls that failed after naming a pixmap.
FailedCycles(log) ==
    {i \in OpsAt(log, "name_pixmap") :
        ~\E j \in OpsAt(log, "import") : log[j].sid = log[i].sid}

\* C13: once a refresh_texture that failed at bind_texture, at the allocation
\* or at import_fd has returned, the pixmap it named has been freed (the
\* texture handles it held are dropped with its locals) and the window's
\* texture set is absent.
C13_FailedRefreshLeavesNothing ==
    pc = "exit" =>
        \A w \in Drawables :
            \A i \in FailedCycles(reslog[w]) :
                /\ \E j \in OpsAt(reslog[w], "free_pixmap") :
                      reslog[w][j].sid = reslog[w][i].sid
                /\ w \in DOMAIN windows
                /\ windows[w].textures = NoTex

\* C14: whenever a window's texture set is present, its capture texture, its
\* remote texture and its imported texture have the same width and height
\* (the source and the destination of every blit agree), also when the
\* window is resized between get_geometry and the naming of the pixmap.
C14_CaptureMatchesImported ==
    \A w \in DOMAIN windows :
        windows[w].textures # NoTex =>
            /\ windows[w].textures.x11_texture = windows[w].textures.imported_texture
            /\ windows[w].textures.x11_texture = windows[w].textures.remote_texture

\* C15: set_and_submit_texture is called exactly in the render passes whose
\* refresh_texture created the set (import, blit, set_and_submit of one set);
\* submit_texture is called only in passes that created nothing, when the
\* texture active in the scene graph is the remote texture of the set just
\* blitted, registered by an earlier set_and_submit_texture; and, until the
\* App is dropped, a window whose last operation is a submission has its
\* current set's remote texture active.
C15_ActiveIsCurrentRemote ==
    \A w \in Drawables :
        LET log == reslog[w]
        IN  /\ \A i \in OpsAt(log, "set_and_submit") :
                 /\ i > 2
                 /\ log[i - 1] = [op |-> "blit", sid |-> log[i].sid]
                 /\ log[i - 2] = [op |-> "import", sid |-> log[i].sid]
            /\ \A i \in OpsAt(log, "submit") :
                 /\ i > 2
                 /\ log[i - 1] = [op |-> "blit", sid |-> log[i].sid]
                 /\ log[i - 2].op # "import"
                 /\ \E j \in OpsAt(log, "set_and_submit") :
                       j < i /\ log[j].sid = log[i].sid
            /\ ( /\ ~app_dropped
                 /\ log # << >>
                 /\ log[Len(log)].op \in {"submit", "set_and_submit"} ) =>
                  /\ w \in DOMAIN windows
                  /\ windows[w].textures # NoTex
                  /\ windows[w].active = windows[w].textures.sid

\* One window was rendered with set_and_submit, then with submit on the
\* unchanged set, then with set_and_submit again after a resize.
C15_Witness ==
    \E w \in Drawables :
        /\ Cardinality(OpsAt(reslog[w], "set_and_submit")) = 2
        /\ Cardinality(OpsAt(reslog[w], "submit")) = 1
        /\ reslog[w][Len(reslog[w])].op = "set_and_submit"
        /\ pc = "wait"

\* C16: a map_win call that has the geometry replies has ended at the
\* off-screen test exactly when the window lies entirely outside the root
\* window (x + width <= 0, y + height <= 0, x >= root width or y >= root
\* height, in exact arithmetic).  Calls that panicked on the negation of
\* i16::MIN are left aside.
C16_RejectsExactlyTheOutside ==
    (lastMap.win # NoGeometry /\ lastMap.outcome # "panicked") =>
        ( lastMap.outcome = "ignored_offscreen"
          <=> EntirelyOutside(lastMap.win, lastMap.root) )

\* C17: the depths of the tracked windows are 0, 1, .., n - 1 for a registry
\* of n windows (candidates that were ignored or failed took no step), no two
\* windows share a depth, and depths grow in the order of registration (the
\* order in which the damage handles were created).
C17_DepthsFollowRegistration ==
    /\ {windows[w].depth : w \in DOMAIN windows}
          = 0 .. (Cardinality(DOMAIN windows) - 1)
    /\ \A v, w \in DOMAIN windows :
          /\ v # w => windows[v].depth # windows[w].depth
          /\ windows[v].damage < windows[w].damage
                <=> windows[v].depth < windows[w].depth

\* Window 2 was registered first, window 1 second.
C17_Witness ==
    /\ DOMAIN windows = {1, 2}
    /\ windows[2].depth = Depth(0)
    /\ windows[1].depth = Depth(1)
    /\ pc = "wait"

\* No map_win call is in progress: the task is between two calls, in the
\* loop of run, or has ended.
MapWinIdle ==
    \/ pc \in {"setup_introspect", "setup_next", "wait", "ack", "exit"}
    \/ caller = "run"

\* C18: whenever no map_win call is in progress, the scene-graph windows
\* added to the client are one per registry entry and none for any other id,
\* and so are the damage registrations: a map_win that did not insert (on a
\* duplicate id, on a failed damage_create) has left neither behind.
C18_SceneGraphMatchesRegistry ==
    MapWinIdle =>
        /\ \A d \in Drawables :
              xrd_client[d] = IF d \in DOMAIN windows THEN 1 ELSE 0
        /\ {dm.drawable : dm \in damages} = DOMAIN windows
        /\ Cardinality(damages) = Cardinality(DOMAIN windows)

\* C20: render_win reaches its unwrap and the blit only with a texture set
\* present: every refresh_texture that returned Ok, after a teardown too,
\* has left one in the Window.
C20_BlitHasTextureSet ==
    pc = "blit" => (wid \in DOMAIN windows /\ windows[wid].textures # NoTex)

\* render_win is about to blit the set refresh_texture created right after
\* tearing down the one of other dimensions.
C20_Witness ==
    /\ pc = "blit"
    /\ plan = "free"
    /\ refreshed
    /\ Cardinality(SinceMark(wid, "free")) = 1
    /\ windows[wid].textures # NoTex

\* The loop is back at wait_for_event having served the notification it
\* took last: its acknowledgment and its render pass are the last things
\* logged, and the pass ended with a texture submission.
Served ==
    /\ pc = "wait"
    /\ Len(evlog) >= 3
    /\ evlog[Len(evlog) - 2] = [ev |-> "notify", arg |-> wid]
    /\ evlog[Len(evlog) - 1] = [ev |-> "ack", arg |-> windows[wid].damage]
    /\ evlog[Len(evlog)] = [ev |-> "render", arg |-> wid]
    /\ reslog[wid] # << >>
    /\ reslog[wid][Len(reslog[wid])].op \in {"submit", "set_and_submit"}

\* C19: a DamageNotify taken for a tracked window leads, unless an operation
\* fails, to the loop being back at wait_for_event with that notification
\* acknowledged and a texture submitted; and in the log every notification
\* but a last one still being served is followed at once by its own
\* acknowledgment and render pass, before any other event.
C19_NotifyLeadsToSubmission ==
    /\ (pc = "ack") ~> (result # "running" \/ Served)
    /\ [](\A i \in DOMAIN evlog :
            (evlog[i].ev = "notify" /\ i < Len(evlog)) =>
               /\ evlog[i + 1].ev = "ack"
               /\ i + 2 <= Len(evlog) =>
                     evlog[i + 2] = [ev |-> "render", arg |-> evlog[i].arg])

\* Two notifications of one window were served one after the other, the
\* second by the fast path.
C19_Witness ==
    /\ Served
    /\ events = 2
    /\ Len(evlog) = 6
    /\ evlog[1] = [ev |-> "notify", arg |-> wid]
    /\ reslog[wid][Len(reslog[wid])].op = "submit"

====
